---- MODULE Spec2Model ----
(***************************************************************************)
(* Model of subdomain_lister.py: the SubdomainLister class.                *)
(*                                                                         *)
(* One run of SubdomainLister.run: the certificate-log fetch and the       *)
(* normalisation of its names, the thread pool that probes every           *)
(* discovered hostname, the collection of the probes' results by the       *)
(* coordinating thread, and the report.                                    *)
(*                                                                         *)
(* A Python str is modelled as a sequence of one-character strings, so     *)
(* that strip, lower, split, startswith and endswith are computed          *)
(* character by character, as str computes them.                           *)
(***************************************************************************)
EXTENDS Naturals, Integers, Sequences, FiniteSets, TLC

VARIABLES
    domain,             \* self.domain
    check_active,       \* self.check_active
    max_workers,        \* self.max_workers
    subdomains,         \* self.subdomains
    active_subdomains,  \* self.active_subdomains
    pc,                 \* the coordinating thread's position in run()
    idx,                \* number of entries of the response consumed so far
    entry,              \* the loop variable `entry` of get_certificate_subdomains
    executor,           \* the ThreadPoolExecutor: "none", "running", "shutdown"
    threads,            \* number of worker threads the executor has spawned
    idle_semaphore,     \* the executor's count of workers that went idle
    exited,             \* number of worker threads that have returned
    work_queue,         \* the executor's FIFO of work items not yet taken
    fut,                \* per submitted hostname, the state of its future
    result,             \* per hostname, what its future holds once finished
    net,                \* per hostname, the schemes on which the host responds
    attempts,           \* per hostname, the requests made so far and their outcome
    probes,             \* per hostname, how often is_subdomain_active was invoked
    adds,               \* per hostname, how often it was added to active_subdomains
    yielded,            \* futures as_completed has handed to the loop body
    writing,            \* writes to active_subdomains in progress: [thread, subdomain]
    report,             \* the report files written, in order
    run_no,             \* 1 for the run; 2 for a repeated check phase (SpecRepeat)
    first_active,       \* the active set the first check phase ended with
    error,              \* the exception that ended the run: "none" while there is none
    artifact,           \* the run's output file: "none", "partial" or "complete"
    fetch_error,        \* the except branch of get_certificate_subdomains was taken
    future_exc,         \* futures that finished holding an exception
    check_errors        \* hostnames for which line 80 printed "Error checking"

vars == << domain, check_active, max_workers, subdomains, active_subdomains,
           pc, idx, entry, executor, threads, idle_semaphore, exited,
           work_queue, fut, result, net, attempts, probes, adds, yielded,
           writing, report, run_no, first_active, error, artifact, fetch_error,
           future_exc, check_errors >>

fetchVars == << idx, entry >>
poolVars  == << executor, threads, idle_semaphore, exited, work_queue, fut,
                result, net, attempts, probes, yielded, writing >>
pairVars  == << run_no, first_active >>
config    == << domain, check_active, max_workers >>
outVars   == << error, artifact >>
excVars   == << future_exc, check_errors >>

----------------------------------------------------------------------------
(* Bounds of the model. *)

\* Entries of the crt.sh response the fetch loop consumes at most.
MaxEntries == 2

\* Largest --threads value tried (0 is tried too).
MaxWorkers == 3

----------------------------------------------------------------------------
(* Python str operations, on sequences of characters. *)

UpperCase == << "A", "B", "C", "D", "E", "F", "G", "H", "I", "J", "K", "L", "M",
                "N", "O", "P", "Q", "R", "S", "T", "U", "V", "W", "X", "Y", "Z" >>
LowerCase == << "a", "b", "c", "d", "e", "f", "g", "h", "i", "j", "k", "l", "m",
                "n", "o", "p", "q", "r", "s", "t", "u", "v", "w", "x", "y", "z" >>

\* str.lower, one character.
LowerChar(c) ==
    IF \E i \in 1..Len(UpperCase) : UpperCase[i] = c
    THEN LowerCase[CHOOSE i \in 1..Len(UpperCase) : UpperCase[i] = c]
    ELSE c

\* str.lower
Lower(s) == [i \in 1..Len(s) |-> LowerChar(s[i])]

\* The characters str.strip() removes.
IsSpace(c) == c \in {" ", "\t", "\n", "\r", "\f"}

RECURSIVE LStrip(_)
LStrip(s) ==
    IF s # << >> /\ IsSpace(Head(s)) THEN LStrip(Tail(s)) ELSE s

RECURSIVE RStrip(_)
RStrip(s) ==
    IF s # << >> /\ IsSpace(s[Len(s)]) THEN RStrip(SubSeq(s, 1, Len(s) - 1)) ELSE s

\* str.strip
Strip(s) == RStrip(LStrip(s))

\* str.startswith
StartsWith(s, p) ==
    Len(p) <= Len(s) /\ SubSeq(s, 1, Len(p)) = p

\* str.endswith
EndsWith(s, p) ==
    Len(p) <= Len(s) /\ SubSeq(s, Len(s) - Len(p) + 1, Len(s)) = p

\* str.split(sep) for a one-character separator: the pieces between the
\* separators, empty pieces kept.
RECURSIVE SplitFrom(_, _, _)
SplitFrom(s, sep, piece) ==
    IF s = << >> THEN << piece >>
    ELSE IF Head(s) = sep THEN << piece >> \o SplitFrom(Tail(s), sep, << >>)
    ELSE SplitFrom(Tail(s), sep, Append(piece, Head(s)))

Split(s, sep) == SplitFrom(s, sep, << >>)

\* The characters used, in code-point order: what sorted() compares by.
CodeOrder == << "\t", "\n", "\f", "\r", " ", "*", "-", ".", "/", ":" >>
             \o UpperCase \o LowerCase

Ord(c) == CHOOSE i \in 1..Len(CodeOrder) : CodeOrder[i] = c

\* a < b for two str.
RECURSIVE StrLess(_, _)
StrLess(a, b) ==
    IF a = << >> THEN b # << >>
    ELSE IF b = << >> THEN FALSE
    ELSE IF Head(a) = Head(b) THEN StrLess(Tail(a), Tail(b))
    ELSE Ord(Head(a)) < Ord(Head(b))

----------------------------------------------------------------------------
(* The inputs tried. *)

ExampleCom    == << "e", "x", "a", "m", "p", "l", "e", ".", "c", "o", "m" >>
SubExample    == << "s", "u", "b", "." >> \o ExampleCom
OtherExample  == << "o", "t", "h", "e", "r", "." >> \o ExampleCom
NotExample    == << "n", "o", "t", "-" >> \o ExampleCom
WildExample   == << "*", "." >> \o ExampleCom
EvilOrg       == << "e", "v", "i", "l", ".", "o", "r", "g" >>
\* " *.Sub.Example.COM "
ShoutedSub    == << " ", "*", ".", "S", "u", "b", ".", "E", "x", "a", "m", "p", "l", "e",
                    ".", "C", "O", "M", " " >>
\* " Example.COM "
ShoutedDomain == << " ", "E", "x", "a", "m", "p", "l", "e", ".", "C", "O", "M", " " >>

\* The `domain` arguments tried.
DomainArgs == { ExampleCom, ShoutedDomain }

\* An entry of the response whose name_value is the string nv.
Named(nv) == [kind |-> "names", name_value |-> nv]

\* An entry with no name_value key (entry.get gives '').
NoNameEntry == [kind |-> "missing", name_value |-> << >>]

\* An entry that is no dict, or whose name_value is no string: entry.get or
\* name_value.split raises.
MalformedEntry == [kind |-> "malformed", name_value |-> << >>]

\* Before the loop, and after the function returned.
NoEntry == [kind |-> "none", name_value |-> << >>]

\* The entries a response may hold.
Entries ==
    { Named(WildExample),
      Named(SubExample \o << "\n" >> \o OtherExample),
      Named(NotExample),
      Named(ExampleCom),
      Named(ShoutedSub),
      Named(EvilOrg),
      Named(<< >>),
      NoNameEntry,
      MalformedEntry }

----------------------------------------------------------------------------
(* get_certificate_subdomains *)

\* name = name.strip().lower(); if name.startswith('*.'): name = name[2:]
Normalize(name) ==
    LET n == Lower(Strip(name))
    IN  IF StartsWith(n, << "*", "." >>) THEN SubSeq(n, 3, Len(n)) ELSE n

\* The test of line 47, without the root-domain exclusion.
AcceptsRoot(name) == EndsWith(name, domain)

\* if name.endswith(self.domain) and name != self.domain
Accepts(name) == EndsWith(name, domain) /\ name # domain

\* The normalised names of one name_value, in order.
NamesOf(nv) ==
    LET names == Split(nv, "\n")
    IN  [i \in 1..Len(names) |-> Normalize(names[i])]

\* What one entry adds to self.subdomains (lines 39-48).
AddedBy(e) ==
    IF e.kind = "names" /\ e.name_value # << >>
    THEN LET names == NamesOf(e.name_value)
         IN  { names[i] : i \in { j \in 1..Len(names) : Accepts(names[j]) } }
    ELSE {}

----------------------------------------------------------------------------
(* Initial state: __init__ has set the attributes of lines 20-25 and is     *)
(* about to create the output directory.                                    *)

Init ==
    /\ \E d \in DomainArgs : domain = Lower(Strip(d))
    /\ check_active \in BOOLEAN
    /\ max_workers \in -1..MaxWorkers
    /\ subdomains = {}
    /\ active_subdomains = {}
    /\ pc = "init"
    /\ idx = 0
    /\ entry = NoEntry
    /\ executor = "none"
    /\ threads = 0
    /\ idle_semaphore = 0
    /\ exited = 0
    /\ work_queue = << >>
    /\ fut = << >>
    /\ result = << >>
    /\ net = << >>
    /\ attempts = << >>
    /\ probes = << >>
    /\ adds = << >>
    /\ yielded = {}
    /\ writing = {}
    /\ report = << >>
    /\ run_no = 1
    /\ first_active = {}
    /\ error = "none"
    /\ artifact = "none"
    /\ fetch_error = FALSE
    /\ future_exc = {}
    /\ check_errors = {}

\* os.makedirs(self.output_dir, exist_ok=True) succeeds; main() calls run().
MakeDirs ==
    /\ pc = "init"
    /\ pc' = "fetch"
    /\ UNCHANGED << config, subdomains, active_subdomains, fetchVars, poolVars,
                    adds, report, outVars, fetch_error, excVars, pairVars >>

\* os.makedirs raises OSError: the constructor raises, run() is never
\* called.
MakeDirsFail ==
    /\ pc = "init"
    /\ pc' = "raised"
    /\ error' = "makedirs"
    /\ UNCHANGED << config, subdomains, active_subdomains, fetchVars, poolVars,
                    adds, report, artifact, fetch_error, excVars, pairVars >>

----------------------------------------------------------------------------
(* Step 1 of run(): get_certificate_subdomains.                             *)

\* requests.get, raise_for_status and response.json all succeed: the loop
\* over the entries begins.
FetchResponse ==
    /\ pc = "fetch"
    /\ pc' = "fetch_loop"
    /\ UNCHANGED << config, subdomains, active_subdomains, fetchVars, poolVars,
                    adds, report, outVars, fetch_error, excVars, pairVars >>

\* One iteration of `for entry in data`, the inner loop over its names
\* included.
FetchEntry ==
    /\ pc = "fetch_loop"
    /\ idx < MaxEntries
    /\ \E e \in Entries :
        /\ e.kind # "malformed"
        /\ entry' = e
        /\ subdomains' = subdomains \cup AddedBy(e)
    /\ idx' = idx + 1
    /\ UNCHANGED << config, active_subdomains, pc, poolVars, adds, report, outVars,
                    fetch_error, excVars, pairVars >>

\* An except branch that lets the exception go on.
AfterFetchErrorRaise == "raised"

\* Where run() is after the except branch of lines 49-50: the function
\* returned normally, step 2 is next.
AfterFetchError == "gate"

\* An except branch that starts over with an empty set.
KeptOnFetchErrorNone == {}

\* What self.subdomains holds after the except branch: what it held.
KeptOnFetchError == subdomains

\* An exception anywhere in the try block (the request, the status, the JSON,
\* a malformed entry): caught at line 49, the function returns with what
\* self.subdomains holds.
FetchError ==
    /\ \/ pc = "fetch"
       \/ /\ pc = "fetch_loop"
          /\ idx < MaxEntries
          /\ \E e \in Entries : e.kind = "malformed"
    /\ pc' = AfterFetchError
    /\ subdomains' = KeptOnFetchError
    /\ fetch_error' = TRUE
    /\ idx' = 0
    /\ entry' = NoEntry
    /\ UNCHANGED << config, active_subdomains, poolVars, adds, report, outVars,
                    excVars, pairVars >>

\* The loop has consumed the whole response: the function returns.
FetchDone ==
    /\ pc = "fetch_loop"
    /\ pc' = "gate"
    /\ idx' = 0
    /\ entry' = NoEntry
    /\ UNCHANGED << config, subdomains, active_subdomains, poolVars, adds, report,
                    outVars, fetch_error, excVars, pairVars >>

----------------------------------------------------------------------------
(* Step 2 of run(): check_subdomains_status.                                *)
(*                                                                          *)
(* A future is identified by the hostname it was submitted for: `futures`   *)
(* maps each future to that hostname, and the hostnames of a set are        *)
(* distinct.  The worker threads are counted, not named: a worker is busy   *)
(* while the probe it took is under way, idle otherwise.                    *)

Schemes == {"https", "http"}

\* The probes under way: the work items taken by a worker and not finished.
InFlight == { h \in DOMAIN fut : fut[h] \in Schemes }

\* Worker threads alive and not running a work item.
IdleThreads == threads - exited - Cardinality(InFlight)

\* A gate that forgets the --no-check flag.
CheckWantedNonEmpty == subdomains # {}

\* A gate that forgets the emptiness test.
CheckWantedFlag == check_active

\* if self.check_active and self.subdomains (line 114)
CheckWanted == check_active /\ subdomains # {}

\* A pool that spawns a thread for every work item.
CanSpawnAlways == TRUE

\* ThreadPoolExecutor._adjust_thread_count: a thread is spawned only while
\* fewer than max_workers exist.
CanSpawn == threads < max_workers

\* The comprehension iterating the wrong attribute.
SubmitSetActive == active_subdomains

\* for subdomain in self.subdomains (line 71)
SubmitSet == subdomains

\* A probe that falls through to HTTP whatever HTTPS gave.
ProbeStepBoth(scheme, ok) ==
    IF scheme = "https" THEN "http"
    ELSE IF ok THEN "return_true" ELSE "return_false"

\* A probe without the inner try: a failed HTTP request raises out of
\* is_subdomain_active.
ProbeStepRaise(scheme, ok) ==
    IF scheme = "https"
    THEN IF ok THEN "return_true" ELSE "http"
    ELSE IF ok THEN "return_true" ELSE "raise"

\* is_subdomain_active (lines 54-64): what follows a request on `scheme`
\* that got a response (ok) or raised (not ok).
ProbeStep(scheme, ok) ==
    IF scheme = "https"
    THEN IF ok THEN "return_true" ELSE "http"
    ELSE IF ok THEN "return_true" ELSE "return_false"

\* Recording every finished probe, whatever it returned.
ShouldRecordAny(res) == TRUE

\* if future.result() (line 77)
ShouldRecord(res) == res

\* Recording the URL probed instead of the hostname.
FutureSubdomainUrl(f) == << "h", "t", "t", "p", "s", ":", "/", "/" >> \o f

\* subdomain = futures[future] (line 75)
FutureSubdomain(f) == f

\* The thread that calls check_subdomains_status.
MainThread == [worker |-> FALSE, task |-> << >>]

\* The worker thread that runs the work item of future f.
WorkerOf(f) == [worker |-> TRUE, task |-> f]

\* Recording from a done-callback, which runs in the worker that finished
\* the probe.
RecordingThreadWorker(f) == WorkerOf(f)

\* The thread that executes the loop body of lines 74-80 for future f: the
\* one that called check_subdomains_status.
RecordingThread(f) == MainThread

\* Waiting for the futures one after the other, in the order of their
\* hostnames, instead of as they complete.
YieldableInOrder(f) ==
    /\ fut[f] = "finished"
    /\ \A g \in DOMAIN fut : StrLess(g, f) => g \in yielded

\* as_completed(futures) can yield future f: it has finished, whatever the
\* state of the others (line 74).
Yieldable(f) == fut[f] = "finished"

\* Leaving the loop as soon as one future has been handled.
AsCompletedFirst == yielded # {}

\* as_completed(futures) is exhausted: every submitted future was yielded.
AsCompletedExhausted == yielded = { h \in DOMAIN fut : fut[h] # "unsubmitted" }

\* shutdown(wait=False): not waiting for the workers.
JoinedNoWait == TRUE

\* The with-block's exit, executor.shutdown(wait=True): every worker thread
\* has been joined.
Joined == exited = threads

\* The threads with a write to active_subdomains in progress.
Writers == { w.thread : w \in writing }

\* A check that lets a pool of no worker through.
WorkersInvalidNegative == max_workers < 0

\* ThreadPoolExecutor.__init__: if max_workers <= 0: raise ValueError.
WorkersInvalid == max_workers <= 0

\* Line 114 is false: the check is skipped.
SkipCheck ==
    /\ pc = "gate"
    /\ ~CheckWanted
    /\ pc' = "report"
    /\ UNCHANGED << config, subdomains, active_subdomains, fetchVars, poolVars,
                    adds, report, outVars, fetch_error, excVars, pairVars >>

\* ThreadPoolExecutor(max_workers=...) raises ValueError for max_workers <= 0:
\* nothing catches it, run() ends there.
PoolCreateFail ==
    /\ pc = "gate"
    /\ CheckWanted
    /\ WorkersInvalid
    /\ pc' = "raised"
    /\ error' = "pool"
    /\ UNCHANGED << config, subdomains, active_subdomains, fetchVars, poolVars,
                    adds, report, artifact, fetch_error, excVars, pairVars >>

\* Line 68: the executor is created.  Which hosts respond, and on which
\* schemes, is fixed here for the whole check.
PoolCreate ==
    /\ pc = "gate"
    /\ CheckWanted
    /\ ~WorkersInvalid
    /\ pc' = "submit"
    /\ executor' = "running"
    /\ threads' = 0
    /\ idle_semaphore' = 0
    /\ exited' = 0
    /\ work_queue' = << >>
    /\ fut' = [h \in subdomains |-> "unsubmitted"]
    /\ result' = [h \in subdomains |-> FALSE]
    /\ attempts' = [h \in subdomains |-> << >>]
    /\ probes' = [h \in subdomains |-> 0]
    /\ adds' = [h \in subdomains |-> 0]
    /\ yielded' = {}
    /\ writing' = {}
    /\ future_exc' = {}
    /\ check_errors' = {}
    /\ IF run_no = 1
       THEN net' \in [subdomains -> SUBSET Schemes]
       ELSE net' = net
    /\ UNCHANGED << config, subdomains, active_subdomains, fetchVars, report,
                    outVars, fetch_error, pairVars >>

\* executor.submit(self.is_subdomain_active, subdomain) for the next
\* hostname of the iteration: the work item is queued and the thread count
\* adjusted.
Submit(h) ==
    /\ pc = "submit"
    /\ h \in SubmitSet
    /\ h \in DOMAIN fut
    /\ fut[h] = "unsubmitted"
    /\ fut' = [fut EXCEPT ![h] = "pending"]
    /\ work_queue' = Append(work_queue, h)
    /\ IF idle_semaphore > 0
       THEN idle_semaphore' = idle_semaphore - 1 /\ threads' = threads
       ELSE /\ idle_semaphore' = idle_semaphore
            /\ threads' = IF CanSpawn THEN threads + 1 ELSE threads
    /\ UNCHANGED << config, subdomains, active_subdomains, pc, fetchVars, executor,
                    exited, result, net, attempts, probes, adds, yielded, writing,
                    report, outVars, fetch_error, excVars, pairVars >>

\* The comprehension of lines 69-72 is done: the loop over as_completed
\* begins.
SubmitDone ==
    /\ pc = "submit"
    /\ \A h \in SubmitSet : h \in DOMAIN fut => fut[h] # "unsubmitted"
    /\ pc' = "collect"
    /\ UNCHANGED << config, subdomains, active_subdomains, fetchVars, poolVars,
                    adds, report, outVars, fetch_error, excVars, pairVars >>

\* An idle worker takes the oldest work item and calls is_subdomain_active,
\* which issues its HTTPS request (line 56).
StartProbe ==
    /\ executor # "none"
    /\ work_queue # << >>
    /\ IdleThreads > 0
    /\ LET h == Head(work_queue)
       IN  /\ fut' = [fut EXCEPT ![h] = "https"]
           /\ probes' = [probes EXCEPT ![h] = @ + 1]
    /\ work_queue' = Tail(work_queue)
    /\ UNCHANGED << config, subdomains, active_subdomains, pc, fetchVars, executor,
                    threads, idle_semaphore, exited, result, net, attempts, adds,
                    yielded, writing, report, outVars, fetch_error, excVars, pairVars >>

\* The request on `scheme` for h ends, with a response or an exception, and
\* is_subdomain_active goes on to its next request or returns; on return
\* the future is finished and the worker is idle again.
RequestEnds(h, scheme) ==
    /\ h \in DOMAIN fut
    /\ fut[h] = scheme
    /\ LET ok   == scheme \in net[h]
           next == ProbeStep(scheme, ok)
       IN  /\ attempts' = [attempts EXCEPT ![h] = Append(@, [scheme |-> scheme, ok |-> ok])]
           /\ IF next = "http"
              THEN /\ fut' = [fut EXCEPT ![h] = "http"]
                   /\ UNCHANGED << result, idle_semaphore, future_exc >>
              ELSE /\ fut' = [fut EXCEPT ![h] = "finished"]
                   /\ result' = [result EXCEPT ![h] = (next = "return_true")]
                   /\ future_exc' = IF next = "raise"
                                    THEN future_exc \cup {h}
                                    ELSE future_exc
                   /\ idle_semaphore' = idle_semaphore + 1
    /\ UNCHANGED << config, subdomains, active_subdomains, pc, fetchVars, executor,
                    threads, exited, work_queue, net, probes, adds, yielded, writing,
                    report, outVars, fetch_error, check_errors, pairVars >>

HttpsEnds == \E h \in subdomains : RequestEnds(h, "https")

HttpEnds == \E h \in subdomains : RequestEnds(h, "http")

\* as_completed yields a finished future; the loop body reads its result
\* and, if it is true, begins active_subdomains.add (lines 75-78); if the
\* future holds an exception, result() raises it and line 80 prints it.
Collect(h) ==
    /\ pc = "collect"
    /\ h \in DOMAIN fut
    /\ Yieldable(h)
    /\ h \notin yielded
    /\ RecordingThread(h) \notin Writers
    /\ yielded' = yielded \cup {h}
    /\ IF h \in future_exc
       THEN /\ check_errors' = check_errors \cup {FutureSubdomain(h)}
            /\ writing' = writing
       ELSE /\ check_errors' = check_errors
            /\ writing' = IF ShouldRecord(result[h])
                          THEN writing \cup {[thread |-> RecordingThread(h),
                                              subdomain |-> FutureSubdomain(h)]}
                          ELSE writing
    /\ UNCHANGED << config, subdomains, active_subdomains, pc, fetchVars, executor,
                    threads, idle_semaphore, exited, work_queue, fut, result, net,
                    attempts, probes, adds, report, outVars, fetch_error, future_exc,
                    pairVars >>

\* A write to active_subdomains completes.
AddDone ==
    /\ \E w \in writing :
        /\ active_subdomains' = active_subdomains \cup {w.subdomain}
        /\ adds' = [adds EXCEPT ![w.subdomain] = @ + 1]
        /\ writing' = writing \ {w}
    /\ UNCHANGED << config, subdomains, pc, fetchVars, executor, threads,
                    idle_semaphore, exited, work_queue, fut, result, net, attempts,
                    probes, yielded, report, outVars, fetch_error, excVars, pairVars >>

\* The loop over as_completed ends; the with-block exits and shuts the
\* executor down.
CollectDone ==
    /\ pc = "collect"
    /\ MainThread \notin Writers
    /\ AsCompletedExhausted
    /\ pc' = "shutdown"
    /\ executor' = "shutdown"
    /\ UNCHANGED << config, subdomains, active_subdomains, fetchVars, threads,
                    idle_semaphore, exited, work_queue, fut, result, net, attempts,
                    probes, adds, yielded, writing, report, outVars,
                    fetch_error, excVars, pairVars >>

\* A worker finds the executor shut down and the queue empty, and returns.
WorkerExit ==
    /\ executor = "shutdown"
    /\ work_queue = << >>
    /\ IdleThreads > 0
    /\ exited' = exited + 1
    /\ UNCHANGED << config, subdomains, active_subdomains, pc, fetchVars, executor,
                    threads, idle_semaphore, work_queue, fut, result, net, attempts,
                    probes, adds, yielded, writing, report, outVars,
                    fetch_error, excVars, pairVars >>

\* shutdown returns: check_subdomains_status returns to run().
Join ==
    /\ pc = "shutdown"
    /\ Joined
    /\ pc' = "report"
    /\ UNCHANGED << config, subdomains, active_subdomains, fetchVars, poolVars,
                    adds, report, outVars, fetch_error, excVars, pairVars >>

----------------------------------------------------------------------------
(* Step 3 of run(): generate_report.                                        *)

\* A sort with the comparison the wrong way round.
RECURSIVE SortedDescending(_)
SortedDescending(S) ==
    IF S = {} THEN << >>
    ELSE LET greatest == CHOOSE x \in S : \A y \in S \ {x} : StrLess(y, x)
         IN  << greatest >> \o SortedDescending(S \ {greatest})

\* sorted(list(S)) for a set of str.
RECURSIVE Sorted(_)
Sorted(S) ==
    IF S = {} THEN << >>
    ELSE LET least == CHOOSE x \in S : \A y \in S \ {x} : StrLess(x, y)
         IN  << least >> \o Sorted(S \ {least})

JsonInt(n) == [type |-> "int", val |-> n]
JsonStr(t) == [type |-> "str", val |-> t]

\* A report whose active count is taken from the wrong set.
ReportCountsAll ==
    [ domain |-> domain,
      total_subdomains_found |-> JsonInt(Cardinality(subdomains)),
      active_subdomains |-> IF check_active
                            THEN JsonInt(Cardinality(subdomains))
                            ELSE JsonStr("Not checked"),
      all_subdomains |-> Sorted(subdomains),
      active_subdomains_list |-> IF check_active
                                 THEN Sorted(active_subdomains)
                                 ELSE << >> ]

\* The dict of lines 90-97, without its timestamp.
Report ==
    [ domain |-> domain,
      total_subdomains_found |-> JsonInt(Cardinality(subdomains)),
      active_subdomains |-> IF check_active
                            THEN JsonInt(Cardinality(active_subdomains))
                            ELSE JsonStr("Not checked"),
      all_subdomains |-> Sorted(subdomains),
      active_subdomains_list |-> IF check_active
                                 THEN Sorted(active_subdomains)
                                 ELSE << >> ]

\* The report is built and written to its file; run() returns its path.
GenerateReport ==
    /\ pc = "report"
    /\ report' = Append(report, Report)
    /\ artifact' = "complete"
    /\ pc' = "done"
    /\ UNCHANGED << config, subdomains, active_subdomains, fetchVars, poolVars,
                    adds, error, fetch_error, excVars, pairVars >>

\* open(output_file, 'w') raises OSError (line 99): no file is created and
\* the exception leaves run().
ReportOpenFail ==
    /\ pc = "report"
    /\ pc' = "raised"
    /\ error' = "open"
    /\ UNCHANGED << config, subdomains, active_subdomains, fetchVars, poolVars,
                    adds, report, artifact, fetch_error, excVars, pairVars >>

\* open succeeded, creating the file, and json.dump or the closing flush
\* raises OSError (line 100): the with-block closes the file, nothing
\* removes it, and the exception leaves run().
ReportDumpFail ==
    /\ pc = "report"
    /\ pc' = "raised"
    /\ error' = "write"
    /\ artifact' = "partial"
    /\ UNCHANGED << config, subdomains, active_subdomains, fetchVars, poolVars,
                    adds, report, fetch_error, excVars, pairVars >>

----------------------------------------------------------------------------
(* The run. *)

Next ==
    \/ MakeDirs
    \/ MakeDirsFail
    \/ FetchResponse
    \/ FetchEntry
    \/ FetchError
    \/ FetchDone
    \/ SkipCheck
    \/ PoolCreateFail
    \/ PoolCreate
    \/ \E h \in subdomains : Submit(h)
    \/ SubmitDone
    \/ StartProbe
    \/ HttpsEnds
    \/ HttpEnds
    \/ \E h \in subdomains : Collect(h)
    \/ AddDone
    \/ CollectDone
    \/ WorkerExit
    \/ Join
    \/ GenerateReport
    \/ ReportOpenFail
    \/ ReportDumpFail

Spec == Init /\ [][Next]_vars

----------------------------------------------------------------------------
(* The run under fair scheduling: the coordinating thread takes its next    *)
(* step when it has one, an idle worker takes queued work and returns once  *)
(* the executor is shut down, and every request that was issued ends (with  *)
(* a response, an error or its timeout of 5 seconds).                       *)

\* The hostnames the entries tried can put into the discovery-set.
Hosts == { SubExample, OtherExample, NotExample }

\* The steps of the thread that calls run().
MainStep ==
    \/ MakeDirs
    \/ FetchResponse
    \/ FetchEntry
    \/ FetchDone
    \/ SkipCheck
    \/ PoolCreateFail
    \/ PoolCreate
    \/ \E h \in subdomains : Submit(h)
    \/ SubmitDone
    \/ \E h \in subdomains : Collect(h)
    \/ AddDone
    \/ CollectDone
    \/ Join
    \/ GenerateReport

Fairness ==
    /\ WF_vars(MainStep)
    /\ WF_vars(StartProbe)
    /\ WF_vars(WorkerExit)
    /\ \A h \in Hosts : WF_vars(RequestEnds(h, "https"))
    /\ \A h \in Hosts : WF_vars(RequestEnds(h, "http"))

SpecFair == Init /\ [][Next]_vars /\ Fairness

\* A host whose requests may take arbitrarily long.
SlowHost == NotExample

\* Fair scheduling, with nothing assumed about the requests to SlowHost.
FairnessButSlow ==
    /\ WF_vars(MainStep)
    /\ WF_vars(StartProbe)
    /\ WF_vars(WorkerExit)
    /\ \A h \in Hosts \ {SlowHost} : WF_vars(RequestEnds(h, "https"))
    /\ \A h \in Hosts \ {SlowHost} : WF_vars(RequestEnds(h, "http"))

SpecSlow == Init /\ [][Next]_vars /\ FairnessButSlow

----------------------------------------------------------------------------
(* The check phase run twice over the same discovery-set and the same       *)
(* hosts: first by a run with one worker, then with at least as many        *)
(* workers as hostnames.                                                    *)

Repeat ==
    /\ pc = "done"
    /\ run_no = 1
    /\ executor = "shutdown"
    /\ max_workers = 1
    /\ run_no' = 2
    /\ first_active' = active_subdomains
    /\ active_subdomains' = {}
    /\ \E n \in 1..MaxWorkers :
        /\ n >= Cardinality(subdomains)
        /\ max_workers' = n
    /\ pc' = "gate"
    /\ UNCHANGED << domain, check_active, subdomains, fetchVars, poolVars, adds,
                    report, outVars, fetch_error, excVars >>

NextRepeat == Next \/ Repeat

SpecRepeat == Init /\ [][NextRepeat]_vars

----------------------------------------------------------------------------
(* Properties of the check phase.                                           *)

\* check_subdomains_status has returned to run().
CheckReturned == executor = "shutdown" /\ pc \in {"report", "done"}

\* C1: every hostname of the discovery-set has is_subdomain_active invoked
\* on it exactly once by the time the pool returns: never twice at any
\* point of the check, and not zero times once check_subdomains_status has
\* returned.
C1_ProbedExactlyOnce ==
    /\ \A h \in DOMAIN probes : probes[h] <= 1
    /\ CheckReturned =>
         /\ DOMAIN probes = subdomains
         /\ \A h \in subdomains : probes[h] = 1

\* Three hostnames were probed by two workers, so one probe had to wait in
\* the queue, and the pool has returned.
C1_Witness ==
    /\ CheckReturned
    /\ Cardinality(subdomains) = 3
    /\ max_workers = 2
    /\ \A h \in subdomains : probes[h] = 1

\* C2: check_subdomains_status does not return while a probe is pending or
\* in flight, and the report is generated only after every probe has
\* finished and every worker thread has been joined.
C2_ReportAfterAllProbes ==
    (executor # "none" /\ (pc \in {"report", "done"} \/ report # << >>)) =>
        /\ \A h \in subdomains : fut[h] = "finished"
        /\ work_queue = << >>
        /\ InFlight = {}
        /\ exited = threads
        /\ writing = {}

\* A report was written after a check in which several workers ran.
C2_Witness ==
    /\ pc = "done"
    /\ Len(report) = 1
    /\ executor = "shutdown"
    /\ threads >= 2
    /\ exited = threads

\* C3: during the check the number of probes in flight never exceeds
\* max_workers, and neither does the number of worker threads.
C3_InFlightBounded ==
    max_workers >= 1 =>
        /\ Cardinality(InFlight) <= max_workers
        /\ threads <= max_workers

\* Every worker is busy and more work is waiting.
C3_Witness ==
    /\ max_workers = 2
    /\ Cardinality(InFlight) = 2
    /\ work_queue # << >>

\* C4: at most one thread is writing to active_subdomains at any time, and
\* it is the coordinating thread.
C4_OneWriter ==
    /\ Cardinality(writing) <= 1
    /\ Writers \subseteq {MainThread}

\* A write is in progress while another probe has already finished with a
\* positive result that is still to be recorded.
C4_Witness ==
    /\ writing # {}
    /\ \E h \in DOMAIN fut :
        /\ fut[h] = "finished"
        /\ result[h]
        /\ h \notin yielded

\* C5: when check_subdomains_status returns, the active-set is exactly the
\* set of hostnames whose own host responded to one of the requests, each
\* of them added exactly once, and no other hostname was ever added.
C5_ActiveIsPositives ==
    CheckReturned =>
        /\ active_subdomains = { h \in subdomains : net[h] # {} }
        /\ \A h \in subdomains : result[h] = (net[h] # {})
        /\ \A h \in subdomains : adds[h] = IF net[h] # {} THEN 1 ELSE 0

\* Three hostnames, two of which respond to HTTPS and one to nothing.
C5_Witness ==
    /\ CheckReturned
    /\ Cardinality(subdomains) = 3
    /\ Cardinality({ h \in subdomains : "https" \in net[h] }) = 2
    /\ Cardinality({ h \in subdomains : net[h] = {} }) = 1
    /\ Cardinality(active_subdomains) = 2

\* C6: the active-set is a subset of the discovery-set in every state of
\* the run.
C6_ActiveSubset == active_subdomains \subseteq subdomains

\* Part of the discovery-set has been recorded as active, part not yet.
C6_Witness ==
    /\ pc = "collect"
    /\ active_subdomains # {}
    /\ active_subdomains # subdomains

\* C7: the check phase with max_workers = 1 and the check phase with
\* max_workers = N, N at least the size of the discovery-set, over the same
\* discovery-set and the same hosts, end with the same active-set.
C7_SameActiveSet ==
    (run_no = 2 /\ CheckReturned) => active_subdomains = first_active

\* The second check phase, with three workers for three hostnames, has
\* returned, some hostnames active and some not.
C7_Witness ==
    /\ run_no = 2
    /\ CheckReturned
    /\ max_workers = 3
    /\ Cardinality(subdomains) = 3
    /\ active_subdomains # {}
    /\ active_subdomains # subdomains

----------------------------------------------------------------------------
(* Properties of the normaliser.                                            *)

\* h is a non-empty label sequence followed by '.' and the root domain.
IsStrictSubLabel(h) ==
    /\ EndsWith(h, << "." >> \o domain)
    /\ Len(h) > Len(domain) + 1

\* C8: every hostname of the discovery-set is a strict sub-label of the
\* root domain.
C8_StrictSubLabels == \A h \in subdomains : IsStrictSubLabel(h)

\* C9: every member of the discovery-set ends with the root domain, and the
\* root domain itself is never a member, also after a wildcard entry that
\* strips down to the root.
C9_SuffixAndNotRoot ==
    /\ domain \notin subdomains
    /\ \A h \in subdomains : EndsWith(h, domain)

\* The wildcard entry for the root has just been processed, after an entry
\* that was accepted.
C9_Witness ==
    /\ pc = "fetch_loop"
    /\ entry = Named(WildExample)
    /\ Normalize(entry.name_value) = domain
    /\ subdomains # {}

----------------------------------------------------------------------------
(* Properties of the prober.                                                *)

\* C10: is_subdomain_active requests HTTPS first, requests HTTP only after
\* the HTTPS request failed, makes at most two requests, and returns true
\* exactly if one of its requests got a response, false exactly if both
\* failed.
C10_HttpsThenHttp ==
    \A h \in DOMAIN attempts :
        LET a == attempts[h]
        IN  /\ Len(a) <= 2
            /\ Len(a) >= 1 => a[1].scheme = "https"
            /\ Len(a) = 2 => (a[2].scheme = "http" /\ ~a[1].ok)
            /\ fut[h] = "https" => a = << >>
            /\ fut[h] = "http" => (Len(a) = 1 /\ ~a[1].ok)
            /\ fut[h] = "finished" =>
                 /\ Len(a) >= 1
                 /\ result[h] <=> (\E i \in 1..Len(a) : a[i].ok)
                 /\ ~result[h] <=> (Len(a) = 2 /\ ~a[1].ok /\ ~a[2].ok)

\* One probe succeeded on HTTPS alone, another fell back to HTTP and
\* succeeded there, a third failed on both.
C10_Witness ==
    /\ \E h \in DOMAIN attempts :
        fut[h] = "finished" /\ Len(attempts[h]) = 1 /\ result[h]
    /\ \E h \in DOMAIN attempts :
        fut[h] = "finished" /\ Len(attempts[h]) = 2 /\ result[h]
    /\ \E h \in DOMAIN attempts :
        fut[h] = "finished" /\ Len(attempts[h]) = 2 /\ ~result[h]


\* The hostnames whose probe has returned false: both requests failed.
FailedProbes ==
    { h \in DOMAIN fut : fut[h] = "finished" /\ Len(attempts[h]) = 2 /\ ~result[h] }

\* C11: a failed request is never raised out of is_subdomain_active: no
\* future ever holds an exception, the except branch of the collection
\* loop is never taken, a run ends with an exception only for a reason
\* other than a probe, and after a probe has failed the run still has a
\* step to take until it has ended, having probed every hostname by the
\* time the pool returns.
C11_ProbeErrorsContained ==
    /\ future_exc = {}
    /\ check_errors = {}
    /\ pc = "raised" => error \in {"makedirs", "pool", "open", "write"}
    /\ FailedProbes # {} =>
         /\ executor = "running" => ENABLED Next
         /\ CheckReturned => \A h \in subdomains : probes[h] = 1
         /\ pc = "done" => Len(report) = 1

\* A probe failed on both schemes, another hostname was probed after it
\* and found active, and the report was written.
C11_Witness ==
    /\ pc = "done"
    /\ Len(report) = 1
    /\ \E h \in FailedProbes : \E g \in active_subdomains : g # h

----------------------------------------------------------------------------
(* Properties of the report.                                                *)

\* C12: in every report written with checking enabled,
\* total_subdomains_found is the length of all_subdomains and
\* active_subdomains is the length of active_subdomains_list, also when the
\* discovery-set is empty; total_subdomains_found is that length with
\* checking disabled too.
C12_CountsMatchLengths ==
    \A i \in 1..Len(report) :
        LET r == report[i]
        IN  /\ r.total_subdomains_found = JsonInt(Len(r.all_subdomains))
            /\ check_active =>
                 r.active_subdomains = JsonInt(Len(r.active_subdomains_list))

\* A report with three hostnames, two of them active.
C12_Witness ==
    /\ check_active
    /\ Len(report) = 1
    /\ Len(report[1].all_subdomains) = 3
    /\ Len(report[1].active_subdomains_list) = 2

\* C13: with checking disabled no executor is created and no probe is
\* started, the active-set stays empty, and every report has
\* active_subdomains = "Not checked" and an empty active_subdomains_list.
C13_NoCheckNoProbe ==
    ~check_active =>
        /\ executor = "none"
        /\ threads = 0
        /\ work_queue = << >>
        /\ DOMAIN probes = {}
        /\ DOMAIN attempts = {}
        /\ active_subdomains = {}
        /\ \A i \in 1..Len(report) :
            /\ report[i].active_subdomains = JsonStr("Not checked")
            /\ report[i].active_subdomains_list = << >>

\* A report written with checking disabled and three hostnames discovered.
C13_Witness ==
    /\ ~check_active
    /\ Len(report) = 1
    /\ Cardinality(subdomains) = 3
    /\ report[1].total_subdomains_found = JsonInt(3)

----------------------------------------------------------------------------
(* Properties of the run's error handling.                                  *)

\* The run has ended for a reason other than the fetch.
EndedOtherwise == error \in {"makedirs", "pool", "open", "write"}

\* C14: an error in get_certificate_subdomains leaves the discovery-set as
\* it was when the error occurred and returns to run(), which goes on to
\* the check and the report: once a fetch error has occurred the run never
\* ends with that error, and under fair scheduling it ends with its report
\* written, unless the executor rejects the worker count or the output
\* cannot be written.
C14_FetchErrorKeepsRun ==
    /\ [][(~fetch_error /\ fetch_error') =>
            (subdomains' = subdomains /\ pc' = "gate")]_vars
    /\ [](fetch_error /\ pc = "raised" => EndedOtherwise)
    /\ [](fetch_error /\ pc = "done" => Len(report) = 1)
    /\ fetch_error ~> (Len(report) = 1 \/ EndedOtherwise)

\* The fetch failed after one entry had been consumed, the hostname it
\* gave was probed, and the report was written.
C14_Witness ==
    /\ fetch_error
    /\ Cardinality(subdomains) = 1
    /\ CheckReturned
    /\ Len(report) = 1
    /\ report[1].total_subdomains_found = JsonInt(1)


\* C15: an output-write error (the directory cannot be created, the file
\* cannot be opened, the JSON cannot be written to the end) ends the run
\* with the exception and leaves no report file, complete or partial.
C15_NoArtifactAfterWriteError ==
    error \in {"makedirs", "open", "write"} =>
        /\ pc = "raised"
        /\ artifact = "none"

----------------------------------------------------------------------------
(* Properties of the run as a whole.                                        *)

\* C16: if the discovery-set is empty after the fetch, no executor is
\* created, no worker is started, no probe is dispatched and the active-set
\* stays empty; the run goes from the gate of line 114 to the report,
\* whatever the worker count, and can end with an exception only for an
\* output-write error.
C16_EmptySetNoWork ==
    (subdomains = {} /\ pc \notin {"init", "fetch", "fetch_loop"}) =>
        /\ executor = "none"
        /\ threads = 0
        /\ work_queue = << >>
        /\ DOMAIN fut = {}
        /\ DOMAIN probes = {}
        /\ active_subdomains = {}
        /\ pc \in {"gate", "report", "done", "raised"}
        /\ pc = "raised" => error \in {"makedirs", "open", "write"}

\* Checking was enabled, nothing was discovered, and the report was
\* written.
C16_Witness ==
    /\ check_active
    /\ subdomains = {}
    /\ pc = "done"
    /\ Len(report) = 1
    /\ report[1].all_subdomains = << >>
    /\ report[1].active_subdomains = JsonInt(0)

\* C17: a run that completes has written exactly one report, as its last
\* step; no run writes more than one; and from the moment run() reaches
\* generate_report neither set changes, so the report written shows the
\* sets as they are at the end.
C17_OneReportLast ==
    /\ [](Len(report) <= 1)
    /\ [](report # << >> => pc = "done")
    /\ [](pc = "done" =>
            /\ Len(report) = 1
            /\ artifact = "complete"
            /\ ~ENABLED Next
            /\ report[1].all_subdomains = Sorted(subdomains)
            /\ check_active =>
                 report[1].active_subdomains_list = Sorted(active_subdomains))
    /\ [][(pc \in {"report", "done"}) =>
            (subdomains' = subdomains /\ active_subdomains' = active_subdomains)]_vars

\* A run that fetched, checked with some hostname found active, and wrote
\* its report.
C17_Witness ==
    /\ pc = "done"
    /\ CheckReturned
    /\ active_subdomains # {}
    /\ Len(report) = 1
    /\ artifact = "complete"

\* q is strictly ascending in the order of str.
IsAscending(q) == \A i \in 1..(Len(q) - 1) : StrLess(q[i], q[i + 1])

\* The elements of the list q.
Range(q) == { q[i] : i \in 1..Len(q) }

\* C18: in every report all_subdomains is strictly ascending (so
\* duplicate-free) and holds exactly the discovery-set, and with checking
\* enabled so is active_subdomains_list for the active-set.
C18_SortedLists ==
    \A i \in 1..Len(report) :
        LET r == report[i]
        IN  /\ IsAscending(r.all_subdomains)
            /\ Range(r.all_subdomains) = subdomains
            /\ check_active =>
                 /\ IsAscending(r.active_subdomains_list)
                 /\ Range(r.active_subdomains_list) = active_subdomains

\* The report lists the three hostnames in order and the two active ones
\* in order.
C18_Witness ==
    /\ check_active
    /\ Len(report) = 1
    /\ report[1].all_subdomains = << NotExample, OtherExample, SubExample >>
    /\ report[1].active_subdomains_list = << NotExample, SubExample >>


\* The probe of h has completed and its result has been recorded: the
\* loop body has handled its future and, if the host responds, the
\* hostname is in the active-set.
Recorded(h) ==
    /\ h \in DOMAIN fut
    /\ h \in yielded
    /\ net[h] # {} => h \in active_subdomains

\* C19: under fair scheduling, whatever the requests to one slow host do,
\* every other probe in flight completes and is recorded; and unless the
\* slow host's probe stays in flight for ever, check_subdomains_status
\* returns.
C19_ChecksTerminate ==
    /\ \A h \in Hosts \ {SlowHost} : (h \in InFlight) ~> Recorded(h)
    /\ \/ <>[](SlowHost \in InFlight)
       \/ (executor = "running") ~> CheckReturned

\* The slow host's probe is still in flight while another probe, started
\* at the same time, has completed and been recorded as active.
C19_Witness ==
    /\ SlowHost \in InFlight
    /\ max_workers >= 2
    /\ \E h \in Hosts \ {SlowHost} : Recorded(h) /\ h \in active_subdomains


\* The fetch is over: the discovery-set is final.
FetchOver == pc \notin {"init", "fetch", "fetch_loop"}

\* C20: with a worker count <= 0 no executor ever exists, no probe is
\* dispatched and the active-set stays empty; if checking is enabled and
\* the discovery-set is not empty the run ends at the creation of the pool
\* with its ValueError, no report written; otherwise the worker count is
\* not consulted, the run never ends with that error and a run that
\* completes has written its report.  The ValueError occurs in no other
\* case.
C20_InvalidWorkerCount ==
    /\ error = "pool" => (max_workers <= 0 /\ CheckWanted /\ pc = "raised")
    /\ max_workers <= 0 =>
        /\ executor = "none"
        /\ threads = 0
        /\ DOMAIN probes = {}
        /\ active_subdomains = {}
        /\ (FetchOver /\ CheckWanted /\ pc # "gate") =>
             /\ pc = "raised"
             /\ error = "pool"
             /\ report = << >>
             /\ artifact = "none"
        /\ (FetchOver /\ ~CheckWanted) =>
             /\ error # "pool"
             /\ pc \in {"gate", "report", "done", "raised"}
             /\ pc = "done" => Len(report) = 1

\* --threads 0 with three hostnames discovered and checking enabled: the
\* run has ended at the creation of the pool.
C20_Witness ==
    /\ max_workers = 0
    /\ check_active
    /\ Cardinality(subdomains) = 3
    /\ pc = "raised"
    /\ error = "pool"

====
